---------------------------- MODULE Spec2Model ----------------------------
(***************************************************************************)
(* TempCredentialsProvider (package awstempcreds): a time-gated cache of   *)
(* temporary STS credentials.  Refresh() assumes the role again and stores *)
(* the answer in p.role; Credentials() refreshes when the wall clock has   *)
(* passed p.nextRefresh and then transposes p.role into aws.Credentials.   *)
(*                                                                         *)
(* Time is counted in whole seconds.  A pointer is a sequence of length at *)
(* most one: Nil is the nil pointer, Ptr(x) points at x.                   *)
(***************************************************************************)
EXTENDS Integers, Sequences, FiniteSets, TLC

VARIABLES
    Region,       \* p.Region
    Duration,     \* p.Duration, in seconds
    RoleARN,      \* p.RoleARN
    role,         \* p.role: *sts.AssumeRoleOutput
    nextRefresh,  \* p.nextRefresh
    clock,        \* the wall clock that time.Now() reads
    step,         \* what the last step did
    returned,     \* what the most recent Credentials() call handed back
    refreshedAt,  \* the clock read on line 59 by the last refreshing call
    directSince,  \* the caller ran Refresh() itself since the last Credentials()
    ran,          \* what the Refresh() run of the last step met, if it ran one
    lastSession,  \* the session name of the most recent Refresh() run, if kept
    keepNames,    \* whether the session names are kept in lastSession
    timeout,      \* the longest the STS client waits for AssumeRole's answer
    late,         \* the last refresh by Credentials() got its credentials
                  \* 5 minutes or more after they were issued
    pc,           \* where each goroutine is in Credentials()
    frame,        \* the locals of each goroutine's Credentials() call
    mutex,        \* the goroutine that holds the callers' lock, if any
    useMutex,     \* whether the callers run Credentials() under the lock
    log,          \* the AssumeRole calls the goroutines made, in order
    begun         \* the number of Credentials() calls the goroutines began

vars == <<Region, Duration, RoleARN, role, nextRefresh, clock, step, returned,
          refreshedAt, directSince, ran, lastSession, keepNames, timeout, late,
          pc, frame, mutex, useMutex, log, begun>>

config == <<Region, Duration, RoleARN>>

\* What is observed of a single caller, and the state of concurrent callers.
observed == <<step, returned, refreshedAt, directSince, ran, lastSession,
              keepNames, timeout, late>>
goroutines == <<pc, frame, mutex, useMutex, log, begun>>

-----------------------------------------------------------------------------
(* Bounds of the model *)

\* Longest time, in seconds, that one AssumeRole round trip takes.
MaxLatency == 2

\* The number of Credentials() calls that concurrent callers begin.
MaxCalls == 2

-----------------------------------------------------------------------------
(* Values *)

Nil == << >>
Ptr(x) == << x >>
Deref(p) == p[1]

\* 5 * time.Minute, in seconds.
SafetyMargin == 300

\* A schedule that starts at the earliest instant the clock can show.
EarliestInstant == 1 - 1

\* The zero time.Time (January 1, year 1): the value of p.nextRefresh in a
\* newly made provider.  It lies before every instant the clock can show.
ZeroTime == -2000000000

\* The instants at which the caller acts, a request is stamped or issued, or
\* a round trip ends.
Instants ==
    {0, 1, 100, 1000, 3200, 3299, 3300, 3301, 3302}

\* The instants from a to b.
Between(a, b) == { t \in Instants : a <= t /\ t <= b }

\* Values of p.Duration the embedding program may configure, in seconds.
Durations == {60, 300, 3600}

\* The credential triples the service hands out.
Triples ==
    { [AccessKeyID |-> "AK1", SecretAccessKey |-> "SK1", SessionToken |-> "TOK1"],
      [AccessKeyID |-> "AK2", SecretAccessKey |-> "SK2", SessionToken |-> "TOK2"] }

\* The errors AssumeRole can return.
Errors == {"AccessDenied", "RequestTimeout"}

\* os.Hostname(): a name, or an error.
Hostnames == { [name |-> "host1", err |-> Nil],
               [name |-> "", err |-> Ptr("hostname unavailable")] }


-----------------------------------------------------------------------------
(* Helpers of Refresh() and Credentials() *)

\* A comparison that also fires at the scheduled instant itself.
AfterOrAt(t, u) == t >= u

\* time.Time.After: strictly later.
After(t, u) == t > u

\* The last instant of the grid.
LastInstant == CHOOSE t \in Instants : \A u \in Instants : u <= t

\* The instants at which a round trip that starts at t can end.
RoundTrips(t) == { u \in Instants : t <= u /\ u <= t + timeout }

\* A lookup whose name is used whether or not it failed.
HostnameUnchecked(h) == h.name

\* hostname, err := os.Hostname(); if err != nil { hostname = "unknown" }
HostnameOrUnknown(h) == IF h.err # Nil THEN "unknown" ELSE h.name

\* The verb %d: an integer in decimal.
Digit(d) ==
    CASE d = 0 -> "0" [] d = 1 -> "1" [] d = 2 -> "2" [] d = 3 -> "3"
      [] d = 4 -> "4" [] d = 5 -> "5" [] d = 6 -> "6" [] d = 7 -> "7"
      [] d = 8 -> "8" [] d = 9 -> "9"

RECURSIVE Decimal(_)
Decimal(n) ==
    IF n < 0 THEN "-" \o Decimal(-n)
    ELSE IF n < 10 THEN Digit(n)
    ELSE Decimal(n \div 10) \o Digit(n % 10)

\* A session name without the time stamp.
SessionNameOfHost(hostname, unix) == "temp-" \o hostname

\* fmt.Sprintf("temp-%s-%d", hostname, time.Now().Unix())
SessionName(hostname, unix) == "temp-" \o hostname \o "-" \o Decimal(unix)

\* return err, at the end of Refresh(): the error of AssumeRole, which has
\* overwritten the error of os.Hostname().
RefreshError(h, reply) == reply.err

\* What stsClient.AssumeRole can answer to a request built between `from'
\* and `to': credentials issued at some instant of the round trip and valid
\* for the requested duration from then on, or an error together with an
\* output that carries no credentials (a nil or an empty AssumeRoleOutput).
AssumeRoleReplies(duration, from, to) ==
    { [out |-> Ptr([Credentials |->
                      Ptr([AccessKeyID     |-> c.AccessKeyID,
                           SecretAccessKey |-> c.SecretAccessKey,
                           SessionToken    |-> c.SessionToken,
                           Expiration      |-> issued + duration])]),
       err |-> Nil] : c \in Triples, issued \in Between(from, to) }
    \cup
    { [out |-> o, err |-> Ptr(e)] :
          o \in {Nil, Ptr([Credentials |-> Nil])}, e \in Errors }

\* The instant at which the credentials of an answer were issued, when they
\* are valid for `duration' from their issue.
Issued(r, duration) == Deref(Deref(r).Credentials).Expiration - duration

\* p.role, err = stsClient.AssumeRole(...): the value p.role gets.
AssignedRole(old, reply) == reply.out

\* A schedule with the sign of the offset slipped.
NextRefreshEarly(now, duration) == now - (duration - SafetyMargin)

\* A schedule that forgets the requested duration.
NextRefreshAfterMargin(now, duration) == now + SafetyMargin

\* A schedule that forgets the safety margin.
NextRefreshNoMargin(now, duration) == now + duration

\* p.nextRefresh = time.Now().Add(p.Duration - (5 * time.Minute))
NextRefreshTime(now, duration) == now + (duration - SafetyMargin)

\* Lines 63-67 dereference p.role, p.role.Credentials and its three fields.
CanTranspose(r) == r # Nil /\ Deref(r).Credentials # Nil

\* The aws.Credentials built from p.role.
Transpose(r) ==
    [AccessKeyID     |-> Deref(Deref(r).Credentials).AccessKeyID,
     SecretAccessKey |-> Deref(Deref(r).Credentials).SecretAccessKey,
     SessionToken    |-> Deref(Deref(r).Credentials).SessionToken]

\* What a call hands back: (*aws.Credentials, error), or a nil-pointer panic.
Returned(c) == [creds |-> Ptr(c), err |-> Nil, panicked |-> FALSE]
Failed(e) == [creds |-> Nil, err |-> e, panicked |-> FALSE]
Panicked == [creds |-> Nil, err |-> Nil, panicked |-> TRUE]

\* return &aws.Credentials{...}, nil
ReturnCredentials(r) == IF CanTranspose(r) THEN Returned(Transpose(r)) ELSE Panicked

\* A return that replaces the error by one of its own.
ReturnOwnError(err) == Failed(Ptr("refresh failed"))

\* if err != nil { return nil, err }
ReturnError(err) == Failed(err)

\* &sts.AssumeRoleInput{DurationSeconds: ..., RoleARN: ..., RoleSessionName: ...}
AssumeRoleInput(duration, arn, hostname, unix) ==
    [DurationSeconds |-> duration,
     RoleARN         |-> arn,
     RoleSessionName |-> SessionName(hostname, unix)]

\* A schedule that is advanced by a failed Refresh() as well.
ScheduleIgnoringError(triggered, err, old, now, duration) ==
    IF triggered THEN NextRefreshTime(now, duration) ELSE old

\* A schedule with the error check inverted.
ScheduleOnFailure(triggered, err, old, now, duration) ==
    IF triggered /\ err # Nil THEN NextRefreshTime(now, duration) ELSE old

\* A schedule that is stamped on every call, refreshing or not.
ScheduleOnEveryCall(triggered, err, old, now, duration) ==
    IF err = Nil THEN NextRefreshTime(now, duration) ELSE old

\* Lines 50-60: p.nextRefresh after a Credentials() call that read `now'
\* on line 59.  It moves only when the call ran Refresh() (`triggered') and
\* Refresh() returned no error.
Schedule(triggered, err, old, now, duration) ==
    IF triggered /\ err = Nil THEN NextRefreshTime(now, duration) ELSE old

\* Before the first Credentials() call nothing has been handed back.
NeverCalled == Failed(Nil)

\* What is recorded of one call: the operation, whether the step before it
\* was a Credentials() call (`again'), the seconds it took, the AssumeRole
\* requests it sent, the error its Refresh() returned, and what `returned'
\* and `refreshedAt' were when it began.
Step(op, took, sent, err) ==
    [op |-> op, again |-> step.op = "Credentials", took |-> took, sent |-> sent,
     err |-> err, prev |-> returned, after |-> refreshedAt]

\* What is kept of a session name: the name, the outcome of the host lookup
\* and the second it was stamped with.
Session(h, unix) ==
    [name |-> SessionName(HostnameOrUnknown(h), unix), lookup |-> h.err,
     unix |-> unix]

\* What is recorded of the Refresh() run of the last step, if it ran one: the
\* error of the host lookup, the second the session name was stamped with,
\* the error AssumeRole answered with, and the session name of the run before.
Ran(h, unix, reply) ==
    << [lookup |-> h.err, unix |-> unix, answer |-> reply.err, before |-> lastSession] >>

\* The goroutines that share one provider.
Goroutines == {1, 2}

\* The locals of a Credentials() call that has not run yet: the p.nextRefresh
\* it compared the clock with, the request in flight and the instant it was
\* sent, the place of the request in the log, the fields read on lines 64
\* and 65, and what the call handed back.
EmptyFrame ==
    [seen |-> Nil, req |-> Nil, sentAt |-> Nil, entry |-> Nil, key |-> Nil,
     secret |-> Nil, result |-> NeverCalled]

\* No goroutine shares the provider: it has a single caller.
NoGoroutines ==
    /\ pc = [g \in Goroutines |-> "idle"]
    /\ frame = [g \in Goroutines |-> EmptyFrame]
    /\ mutex = Nil
    /\ useMutex = FALSE
    /\ log = << >>
    /\ begun = 0

-----------------------------------------------------------------------------
(* The provider *)

Init ==
    /\ Region = "ap-southeast-2"
    /\ Duration \in Durations
    /\ RoleARN = "arn:aws:iam::123456789012:role/temp"
    /\ role = Nil
    /\ nextRefresh = ZeroTime
    /\ clock \in Instants
    /\ step = [op |-> "Init", again |-> FALSE, took |-> 0, sent |-> << >>,
               err |-> Nil, prev |-> NeverCalled, after |-> Nil]
    /\ returned = NeverCalled
    /\ refreshedAt = Nil
    /\ directSince = FALSE
    /\ ran = Nil
    /\ lastSession = Nil
    /\ keepNames = FALSE
    /\ timeout = MaxLatency
    /\ late = FALSE
    /\ NoGoroutines

\* Time passes between two calls of the caller.
Advance ==
    /\ \E t \in Instants : t > clock /\ clock' = t
    /\ step' = [op |-> "Advance", again |-> FALSE, took |-> 0, sent |-> << >>,
                err |-> Nil, prev |-> NeverCalled, after |-> Nil]
    /\ ran' = Nil
    /\ UNCHANGED <<config, role, nextRefresh, returned, refreshedAt, directSince,
                   lastSession, keepNames, timeout, late, goroutines>>

\* The body of Refresh(): the host lookup answers h, the session name is
\* stamped at `unix', the round trip ends at `done' with `reply'.
RefreshBody(op, h, unix, done, reply) ==
    /\ role' = AssignedRole(role, reply)
    /\ clock' = done
    /\ step' = Step(op, done - clock,
                    << AssumeRoleInput(Duration, RoleARN, HostnameOrUnknown(h), unix) >>,
                    RefreshError(h, reply))
    /\ ran' = Ran(h, unix, reply)
    /\ lastSession' = IF keepNames THEN Ptr(Session(h, unix)) ELSE lastSession
    /\ UNCHANGED <<keepNames, timeout>>

\* The caller runs p.Refresh() itself.
Refresh ==
    /\ \E h \in Hostnames, done \in RoundTrips(clock) :
         \E unix \in Between(clock, done) :
           \E reply \in AssumeRoleReplies(Duration, unix, done) :
             RefreshBody("Refresh", h, unix, done, reply)
    /\ directSince' = TRUE
    /\ UNCHANGED <<config, nextRefresh, returned, refreshedAt, late, goroutines>>

\* The caller runs p.Credentials().
Credentials ==
    /\ directSince' = FALSE
    /\ UNCHANGED <<config, goroutines>>
    /\ IF After(clock, nextRefresh)
       THEN \E h \in Hostnames, done \in RoundTrips(clock) :
              \E unix \in Between(clock, done) :
                \E reply \in AssumeRoleReplies(Duration, unix, done) :
                  /\ RefreshBody("Credentials", h, unix, done, reply)
                  /\ nextRefresh' =
                         Schedule(TRUE, reply.err, nextRefresh, done, Duration)
                  /\ IF reply.err # Nil
                     THEN /\ UNCHANGED <<refreshedAt, late>>
                          /\ returned' = ReturnError(reply.err)
                     ELSE /\ refreshedAt' = Ptr(done)
                          /\ late' = (done - Issued(role', Duration) >= SafetyMargin)
                          /\ returned' = ReturnCredentials(role')
       ELSE /\ UNCHANGED <<role, clock, refreshedAt, late>>
            /\ nextRefresh' = Schedule(FALSE, Nil, nextRefresh, clock, Duration)
            /\ step' = Step("Credentials", 0, << >>, Nil)
            /\ ran' = Nil
            /\ UNCHANGED <<lastSession, keepNames, timeout>>
            /\ returned' = ReturnCredentials(role)

Next == Advance \/ Refresh \/ Credentials

Spec == Init /\ [][Next]_vars

\* The same provider, configured for one hour, with its session names kept.
InitNames ==
    /\ Region = "ap-southeast-2"
    /\ Duration = 3600
    /\ RoleARN = "arn:aws:iam::123456789012:role/temp"
    /\ role = Nil
    /\ nextRefresh = ZeroTime
    /\ clock \in Instants
    /\ step = [op |-> "Init", again |-> FALSE, took |-> 0, sent |-> << >>,
               err |-> Nil, prev |-> NeverCalled, after |-> Nil]
    /\ returned = NeverCalled
    /\ refreshedAt = Nil
    /\ directSince = FALSE
    /\ ran = Nil
    /\ lastSession = Nil
    /\ keepNames = TRUE
    /\ timeout = MaxLatency
    /\ late = FALSE
    /\ NoGoroutines

SpecNames == InitNames /\ [][Next]_vars

\* The same provider with a client that waits up to 20 minutes for
\* AssumeRole's answer, configured for a duration that ends on an instant.
InitSlow ==
    /\ Region = "ap-southeast-2"
    /\ Duration = 3200
    /\ RoleARN = "arn:aws:iam::123456789012:role/temp"
    /\ role = Nil
    /\ nextRefresh = ZeroTime
    /\ clock \in Instants
    /\ step = [op |-> "Init", again |-> FALSE, took |-> 0, sent |-> << >>,
               err |-> Nil, prev |-> NeverCalled, after |-> Nil]
    /\ returned = NeverCalled
    /\ refreshedAt = Nil
    /\ directSince = FALSE
    /\ ran = Nil
    /\ lastSession = Nil
    /\ keepNames = FALSE
    /\ timeout = 4 * SafetyMargin
    /\ late = FALSE
    /\ NoGoroutines

SpecSlow == InitSlow /\ [][Next]_vars


-----------------------------------------------------------------------------
(* Goroutines that share one provider *)

\* Goroutine g returns from Credentials() with `result' and, if the callers
\* lock, releases the lock.
Leave(g, result) ==
    /\ pc' = [pc EXCEPT ![g] = "idle"]
    /\ frame' = [frame EXCEPT ![g] = [EmptyFrame EXCEPT !.result = result]]
    /\ mutex' = IF useMutex THEN Nil ELSE mutex

\* Goroutine g calls p.Credentials(), after taking the lock if the callers lock.
Enter(g) ==
    /\ pc[g] = "idle"
    /\ begun < MaxCalls
    /\ useMutex => mutex = Nil
    /\ mutex' = IF useMutex THEN Ptr(g) ELSE mutex
    /\ pc' = [pc EXCEPT ![g] = "line50"]
    /\ frame' = [frame EXCEPT ![g] = EmptyFrame]
    /\ begun' = begun + 1
    /\ UNCHANGED <<config, role, nextRefresh, clock, observed, useMutex, log>>

\* if time.Now().After(p.nextRefresh)
Line50(g) ==
    /\ pc[g] = "line50"
    /\ IF After(clock, nextRefresh)
       THEN /\ pc' = [pc EXCEPT ![g] = "line34"]
            /\ frame' = [frame EXCEPT ![g].seen = Ptr(nextRefresh)]
       ELSE /\ pc' = [pc EXCEPT ![g] = "line64"]
            /\ UNCHANGED frame
    /\ UNCHANGED <<config, role, nextRefresh, clock, observed, mutex, useMutex,
                   log, begun>>

\* Lines 34-43, up to the request: Refresh() looks the host up, stamps the
\* session name and sends the AssumeRole request.
Line34(g) ==
    /\ pc[g] = "line34"
    /\ \E h \in Hostnames :
         frame' = [frame EXCEPT
                     ![g].req = Ptr(AssumeRoleInput(Duration, RoleARN,
                                                    HostnameOrUnknown(h), clock)),
                     ![g].sentAt = Ptr(clock),
                     ![g].entry = Ptr(Len(log) + 1)]
    /\ log' = Append(log, [window |-> Deref(frame[g].seen), by |-> g, ok |-> Nil])
    /\ pc' = [pc EXCEPT ![g] = "line39"]
    /\ UNCHANGED <<config, role, nextRefresh, clock, observed, mutex, useMutex,
                   begun>>

\* Line 39, the answer: p.role is assigned, Refresh() returns the error and
\* line 52 of Credentials() returns it if there is one.
Line39(g) ==
    /\ pc[g] = "line39"
    /\ \E reply \in AssumeRoleReplies(Duration, Deref(frame[g].sentAt), clock) :
         /\ role' = AssignedRole(role, reply)
         /\ log' = [log EXCEPT ![Deref(frame[g].entry)].ok = Ptr(reply.err = Nil)]
         /\ IF reply.err # Nil
            THEN Leave(g, ReturnError(reply.err))
            ELSE /\ pc' = [pc EXCEPT ![g] = "line59"]
                 /\ frame' = [frame EXCEPT ![g].req = Nil, ![g].sentAt = Nil]
                 /\ UNCHANGED mutex
    /\ UNCHANGED <<config, nextRefresh, clock, observed, useMutex, begun>>

\* p.nextRefresh = time.Now().Add(p.Duration - (5 * time.Minute))
Line59(g) ==
    /\ pc[g] = "line59"
    /\ nextRefresh' = Schedule(TRUE, Nil, nextRefresh, clock, Duration)
    /\ pc' = [pc EXCEPT ![g] = "line64"]
    /\ UNCHANGED <<config, role, clock, observed, frame, mutex, useMutex, log,
                   begun>>

\* AccessKeyID: *p.role.Credentials.AccessKeyID
Line64(g) ==
    /\ pc[g] = "line64"
    /\ IF CanTranspose(role)
       THEN /\ pc' = [pc EXCEPT ![g] = "line65"]
            /\ frame' = [frame EXCEPT ![g].key = Ptr(Transpose(role).AccessKeyID)]
            /\ UNCHANGED mutex
       ELSE Leave(g, Panicked)
    /\ UNCHANGED <<config, role, nextRefresh, clock, observed, useMutex, log,
                   begun>>

\* SecretAccessKey: *p.role.Credentials.SecretAccessKey
Line65(g) ==
    /\ pc[g] = "line65"
    /\ IF CanTranspose(role)
       THEN /\ pc' = [pc EXCEPT ![g] = "line66"]
            /\ frame' = [frame EXCEPT
                           ![g].secret = Ptr(Transpose(role).SecretAccessKey)]
            /\ UNCHANGED mutex
       ELSE Leave(g, Panicked)
    /\ UNCHANGED <<config, role, nextRefresh, clock, observed, useMutex, log,
                   begun>>

\* SessionToken: *p.role.Credentials.SessionToken, and the return of line 63.
Line66(g) ==
    /\ pc[g] = "line66"
    /\ IF CanTranspose(role)
       THEN Leave(g, Returned([AccessKeyID     |-> Deref(frame[g].key),
                               SecretAccessKey |-> Deref(frame[g].secret),
                               SessionToken    |-> Transpose(role).SessionToken]))
       ELSE Leave(g, Panicked)
    /\ UNCHANGED <<config, role, nextRefresh, clock, observed, useMutex, log,
                   begun>>

\* Time passes while the goroutines run.
Tick ==
    /\ \E t \in Instants : t > clock /\ clock' = t
    /\ UNCHANGED <<config, role, nextRefresh, observed, goroutines>>

NextConcurrent ==
    \/ Tick
    \/ \E g \in Goroutines :
         \/ Enter(g)
         \/ Line50(g)
         \/ Line34(g)
         \/ Line39(g)
         \/ Line59(g)
         \/ Line64(g)
         \/ Line65(g)
         \/ Line66(g)

\* A new provider shared by the goroutines, whose callers either all lock
\* or none does.  The goroutines run within one round trip of each other, at
\* the end of the grid.
InitConcurrent ==
    /\ Region = "ap-southeast-2"
    /\ Duration \in Durations
    /\ RoleARN = "arn:aws:iam::123456789012:role/temp"
    /\ role = Nil
    /\ nextRefresh = ZeroTime
    /\ clock \in Between(LastInstant - MaxLatency, LastInstant)
    /\ step = [op |-> "Init", again |-> FALSE, took |-> 0, sent |-> << >>,
               err |-> Nil, prev |-> NeverCalled, after |-> Nil]
    /\ returned = NeverCalled
    /\ refreshedAt = Nil
    /\ directSince = FALSE
    /\ ran = Nil
    /\ lastSession = Nil
    /\ keepNames = FALSE
    /\ timeout = MaxLatency
    /\ late = FALSE
    /\ pc = [g \in Goroutines |-> "idle"]
    /\ frame = [g \in Goroutines |-> EmptyFrame]
    /\ mutex = Nil
    /\ useMutex \in BOOLEAN
    /\ log = << >>
    /\ begun = 0

SpecConcurrent == InitConcurrent /\ [][NextConcurrent]_vars


-----------------------------------------------------------------------------
(* Vocabulary of the properties *)

\* The step just taken was a Credentials() call / a Refresh() by the caller.
IsCredentials == step.op = "Credentials"
IsRefresh == step.op = "Refresh"

\* The number of AssumeRole requests the step just taken made.
Calls == Len(step.sent)

\* cachedCredentials is present: p.role holds a credential triple.
Present(r) == r # Nil /\ Deref(r).Credentials # Nil

\* The expiry of the cached credentials.
Expiry(r) == Deref(Deref(r).Credentials).Expiration

AK1 == [AccessKeyID |-> "AK1", SecretAccessKey |-> "SK1", SessionToken |-> "TOK1"]
AK2 == [AccessKeyID |-> "AK2", SecretAccessKey |-> "SK2", SessionToken |-> "TOK2"]

-----------------------------------------------------------------------------
(* C1 *)

\* C1: if the cache holds credentials and a later refresh (by Credentials()
\* or by Refresh() directly) fails, p.role after the failed attempt is the
\* same as before it.
C1_FailedRefreshKeepsRole ==
    [][ ((IsCredentials' \/ IsRefresh') /\ step'.err # Nil /\ Present(role))
            => role' = role ]_vars

-----------------------------------------------------------------------------
(* C2 *)

\* C2: a Credentials() call that reads the time t on line 50 calls
\* AssumeRole if and only if t is strictly after p.nextRefresh; with a
\* Duration of 60 minutes and the last refreshing call having completed (read
\* the clock on line 59) at T, a call at T + 54m59s makes no request and a
\* call at T + 55m01s makes exactly one.
C2_RefreshIffAfterNextRefresh ==
    [][ IsCredentials' =>
          /\ Calls' = (IF clock > nextRefresh THEN 1 ELSE 0)
          /\ (Duration = 3600 /\ refreshedAt # Nil) =>
                /\ clock = Deref(refreshedAt) + 3299 => Calls' = 0
                /\ clock = Deref(refreshedAt) + 3301 => Calls' = 1 ]_vars

\* A call 55m01s after a refresh that completed at T made one request.
C2_Witness ==
    /\ IsCredentials
    /\ Duration = 3600
    /\ step.after # Nil
    /\ clock - step.took = Deref(step.after) + 3301
    /\ Calls = 1

-----------------------------------------------------------------------------
(* C3 *)

\* C3: a Credentials() call whose refresh fails leaves p.nextRefresh as it
\* was, and the Credentials() call that follows a failed one calls AssumeRole
\* again, however many calls have failed in a row.
C3_FailureKeepsSchedule ==
    [][ IsCredentials' =>
          /\ step'.err # Nil => nextRefresh' = nextRefresh
          /\ returned.err # Nil => Calls' = 1 ]_vars

\* A failed call that follows a failed call, both having called AssumeRole.
C3_Witness ==
    /\ IsCredentials
    /\ step.prev.err # Nil
    /\ step.err # Nil
    /\ Calls = 1
    /\ clock > nextRefresh

-----------------------------------------------------------------------------
(* C4 *)

\* C4: the first Credentials() call on a newly made provider calls
\* AssumeRole exactly once, whatever the clock shows.
C4_FirstCallFetches ==
    [][ (IsCredentials' /\ returned = NeverCalled /\ role = Nil) => Calls' = 1 ]_vars

\* The first call has been made, at the earliest instant of the clock, and
\* made one request.
C4_Witness ==
    /\ IsCredentials
    /\ step.prev = NeverCalled
    /\ clock - step.took = 0
    /\ Calls = 1

-----------------------------------------------------------------------------
(* C5 *)

\* C5 as stated: a Credentials() call that directly follows a successful
\* Credentials() call, the clock showing the same instant, makes no AssumeRole
\* request and hands back the same triple.
C5_SecondCallIsCached ==
    [][ (IsCredentials' /\ IsCredentials /\ returned.creds # Nil)
            => (Calls' = 0 /\ returned' = returned) ]_vars

\* C5 as amended: the same, for a Duration of at least the 5-minute margin.
C5_SecondCallIsCachedWhenDurationCoversMargin ==
    [][ (IsCredentials' /\ IsCredentials /\ returned.creds # Nil
            /\ Duration >= SafetyMargin)
            => (Calls' = 0 /\ returned' = returned) ]_vars

\* A second call right after a refreshing first call, served from the cache
\* with the first call's triple.
C5_Witness ==
    /\ IsCredentials
    /\ step.again
    /\ Duration >= SafetyMargin
    /\ refreshedAt = Ptr(clock)
    /\ step.prev.creds # Nil
    /\ Calls = 0
    /\ returned = step.prev

-----------------------------------------------------------------------------
(* C6 *)

\* C6: when a Credentials() call refreshes successfully, p.nextRefresh
\* becomes now + Duration - 5 minutes, now being the time the call read on
\* line 50, before AssumeRole was called, however long AssumeRole takes.
C6_ScheduledFromTimeOfCall ==
    [][ (IsCredentials' /\ Calls' = 1 /\ step'.err = Nil)
            => nextRefresh' = clock + Duration - SafetyMargin ]_vars

-----------------------------------------------------------------------------
(* C7 *)

\* C7: with credentials valid for exactly Duration from their issue, whenever
\* credentials are cached and now < p.nextRefresh, they expire no sooner than
\* 5 minutes after p.nextRefresh.
C7_MarginBeforeExpiry ==
    (Present(role) /\ clock < nextRefresh)
        => Expiry(role) >= nextRefresh + SafetyMargin

-----------------------------------------------------------------------------
(* C8 *)

\* The cache of the scenario: Duration 3600s, last refreshed by a call that
\* completed at t = 0 and got {AK1,SK1,TOK1}.
C8_Scenario ==
    /\ Duration = 3600
    /\ refreshedAt = Ptr(0)
    /\ Present(role)
    /\ Transpose(role) = AK1

\* The parts of the scenario before the second refresh: the refresh at t = 0
\* schedules the next one for 3300, and calls at t = 100, 1000 and 3200 hand
\* back {AK1,SK1,TOK1} without an AssumeRole request; a call at 3301 makes one.
C8_UpToSecondRefresh ==
    /\ (Duration = 3600 /\ Calls' = 1 /\ step'.err = Nil /\ clock' = 0)
          => nextRefresh' = 3300
    /\ (C8_Scenario /\ clock \in {100, 1000, 3200})
          => (Calls' = 0 /\ returned' = Returned(AK1))
    /\ (C8_Scenario /\ clock = 3301) => Calls' = 1

\* That refresh at 3301 having got {AK2,SK2,TOK2}.
C8_SecondRefresh ==
    /\ C8_Scenario
    /\ clock = 3301
    /\ step'.err = Nil
    /\ Transpose(role') = AK2

\* C8 as stated: ... and the call at 3301 hands back {AK2,SK2,TOK2} and
\* p.nextRefresh becomes 6600.
C8_ScenarioEndsAt6600 ==
    [][ IsCredentials' =>
          /\ C8_UpToSecondRefresh
          /\ C8_SecondRefresh =>
                (returned' = Returned(AK2) /\ nextRefresh' = 6600) ]_vars

\* C8 as amended: ... and p.nextRefresh becomes 3300s after the instant the
\* refresh completed: 6601 when it completes within the second of the call.
C8_ScenarioEndsAt6601 ==
    [][ IsCredentials' =>
          /\ C8_UpToSecondRefresh
          /\ C8_SecondRefresh =>
                /\ returned' = Returned(AK2)
                /\ nextRefresh' = clock' + 3300
                /\ clock' = 3301 => nextRefresh' = 6601 ]_vars

\* The call at 3301 of the scenario has handed back {AK2,SK2,TOK2}.
C8_Witness ==
    /\ IsCredentials
    /\ Duration = 3600
    /\ step.after = Ptr(0)
    /\ step.prev = Returned(AK1)
    /\ clock = 3301 /\ step.took = 0
    /\ Calls = 1
    /\ returned = Returned(AK2)
    /\ nextRefresh = 6601

-----------------------------------------------------------------------------
(* C9 *)

\* What a Credentials() call that finds the clock not after p.nextRefresh
\* leaves alone: no AssumeRole request, p.role and p.nextRefresh unchanged.
C9_PureRead == Calls' = 0 /\ role' = role /\ nextRefresh' = nextRefresh

\* C9 as stated: such a call is a pure read and hands back a triple identical
\* to the one the previous Credentials() call handed back.
C9_CachedCallRepeatsPreviousTriple ==
    [][ (IsCredentials' /\ ~(clock > nextRefresh))
            => /\ C9_PureRead
               /\ returned'.creds # Nil
               /\ returned' = returned ]_vars

\* C9 as amended: such a call is a pure read and hands back what p.role holds;
\* that is what the previous Credentials() call handed back when the caller
\* ran no Refresh() of its own in between.
C9_CachedCallRepeatsUnlessRefreshedDirectly ==
    [][ (IsCredentials' /\ ~(clock > nextRefresh))
            => /\ C9_PureRead
               /\ returned' = ReturnCredentials(role)
               /\ ~directSince => returned' = returned ]_vars

\* A cached call, later than the call before it, that repeated its triple.
C9_Witness ==
    /\ IsCredentials
    /\ ~step.again
    /\ Calls = 0
    /\ refreshedAt # Nil /\ clock > Deref(refreshedAt)
    /\ step.prev.creds # Nil
    /\ returned = step.prev

-----------------------------------------------------------------------------
(* C10 *)

\* C10: a Credentials() call makes at most one AssumeRole request, and when
\* that request fails the call hands back AssumeRole's error as it is, and no
\* credentials, whether or not credentials were cached before.
C10_OneRequestAndItsError ==
    [][ IsCredentials' =>
          /\ Calls' <= 1
          /\ step'.err # Nil =>
                returned' = [creds |-> Nil, err |-> step'.err, panicked |-> FALSE] ]_vars

\* A call failed although credentials had been handed back before.
C10_Witness ==
    /\ IsCredentials
    /\ Calls = 1
    /\ step.err = Ptr("RequestTimeout")
    /\ step.prev.creds # Nil
    /\ returned = [creds |-> Nil, err |-> Ptr("RequestTimeout"), panicked |-> FALSE]

-----------------------------------------------------------------------------
(* C11 *)

\* The host lookup of the Refresh() run of the last step failed.
LookupFailed == ran # Nil /\ Deref(ran).lookup # Nil

\* C11: when the host lookup fails, Refresh() still calls AssumeRole, once,
\* with the session name temp-unknown-<unixSeconds>, and it fails or succeeds
\* as AssumeRole does.
C11_HostnameFallback ==
    LookupFailed =>
        /\ Calls = 1
        /\ step.sent[1].RoleSessionName = "temp-unknown-" \o Decimal(Deref(ran).unix)
        /\ step.err = Deref(ran).answer
        /\ Deref(ran).answer = Nil => Present(role)

\* A refresh succeeded although the host lookup had failed.
C11_Witness ==
    /\ LookupFailed
    /\ step.sent[1].RoleSessionName = "temp-unknown-3301"
    /\ step.err = Nil
    /\ Present(role)

-----------------------------------------------------------------------------
(* C12 *)

\* C12: p.nextRefresh changes only in a Credentials() call whose refresh
\* succeeded -- Refresh() by the caller, a Credentials() call whose refresh
\* failed and a Credentials() call that did not refresh leave it alone -- and
\* Region, RoleARN and Duration never change.
C12_OnlySuccessfulRefreshMovesSchedule ==
    [][ /\ nextRefresh' # nextRefresh =>
              (IsCredentials' /\ Calls' = 1 /\ step'.err = Nil)
        /\ config' = config ]_vars

\* Refresh() by the caller succeeded past the scheduled instant and the
\* schedule is still the one the last refreshing Credentials() call set.
C12_Witness ==
    /\ IsRefresh
    /\ step.err = Nil
    /\ refreshedAt # Nil
    /\ nextRefresh = Deref(refreshedAt) + Duration - SafetyMargin
    /\ clock > nextRefresh

-----------------------------------------------------------------------------
(* C13 *)

\* C13: p.role starts without credentials, gets them at the first successful
\* AssumeRole call and holds credentials in every later state; it changes
\* only by a successful AssumeRole call, which replaces the whole triple.
C13_OnceCachedAlwaysCached ==
    /\ ~Present(role)
    /\ [][ /\ Present(role) => Present(role')
           /\ (Present(role') /\ role' # role) => (Calls' = 1 /\ step'.err = Nil) ]_vars

-----------------------------------------------------------------------------
(* C14 *)

\* The step is a Refresh() run that follows an earlier one.
C14_RunsAgain == ran' # Nil /\ lastSession # Nil

\* C14 as stated: any two Refresh() runs pass different session names to
\* AssumeRole, a failed refresh and its immediate retry included.
C14_SessionNamesDiffer ==
    [][ C14_RunsAgain => Deref(lastSession').name # Deref(lastSession).name ]_vars

\* C14 as amended: two Refresh() runs with the same outcome of the host
\* lookup pass different session names exactly when they are stamped with
\* different Unix seconds; runs within one second pass the same name.
C14_SessionNamesDifferBySecond ==
    [][ (C14_RunsAgain /\ Deref(lastSession').lookup = Deref(lastSession).lookup)
            => /\ Deref(lastSession').unix >= Deref(lastSession).unix
               /\ (Deref(lastSession').name = Deref(lastSession).name)
                     <=> (Deref(lastSession').unix = Deref(lastSession).unix) ]_vars

\* A Credentials() call that failed is retried within the second and passes
\* the session name of the failed attempt again.
C14_Witness ==
    /\ IsCredentials
    /\ step.again
    /\ step.prev.err # Nil
    /\ ran # Nil
    /\ Deref(ran).before = lastSession
    /\ Deref(lastSession).name = "temp-host1-3301"

-----------------------------------------------------------------------------
(* C15 *)

\* One goroutine is on the lines that read p.role while the answer that
\* replaces p.role is on its way to the other.
C15_Racing ==
    \E g, h \in Goroutines :
        /\ g # h
        /\ pc[g] \in {"line64", "line65", "line66"}
        /\ pc[h] = "line39"

\* A goroutine was handed a triple whose fields come from two answers.
C15_Torn ==
    \E g \in Goroutines :
        /\ frame[g].result.creds # Nil
        /\ Deref(frame[g].result.creds) \notin Triples

\* Two AssumeRole calls were made for one refresh window, that is, by callers
\* that compared the clock with the same p.nextRefresh.
C15_Repeated ==
    \E i, j \in DOMAIN log : i < j /\ log[i].window = log[j].window

\* An AssumeRole call was made for a refresh window although an earlier call
\* for that window had not failed.
C15_Duplicated ==
    \E i, j \in DOMAIN log :
        /\ i < j
        /\ log[i].window = log[j].window
        /\ log[i].ok # Ptr(FALSE)

\* C15 as stated: two interleaved Credentials() calls can both pass the time
\* check and both call AssumeRole for one refresh window, and one can read
\* p.role while the other replaces it; when the callers run every
\* Credentials() call under one lock, none of this happens and at most one
\* AssumeRole call is made per refresh window.
C15_OneCallPerWindowUnderLock ==
    (C15_Racing \/ C15_Torn \/ C15_Repeated) => ~useMutex

\* C15 as amended: under the lock no read of p.role meets a replacement, and
\* with a Duration of at least 5 minutes an AssumeRole call is made for a
\* refresh window only when every earlier call for that window failed.
C15_OneSuccessPerWindowUnderLock ==
    (C15_Racing \/ C15_Torn \/ (Duration >= SafetyMargin /\ C15_Duplicated))
        => ~useMutex

\* Without the lock both goroutines called AssumeRole for the first refresh
\* window, both calls succeeded, and one goroutine was handed the access key
\* of one answer with the secret of the other.
C15_Witness ==
    /\ ~useMutex
    /\ Duration > SafetyMargin
    /\ Len(log) = 2
    /\ log[1].window = ZeroTime /\ log[2].window = ZeroTime
    /\ log[1].by # log[2].by
    /\ log[1].ok = Ptr(TRUE) /\ log[2].ok = Ptr(TRUE)
    /\ C15_Torn

-----------------------------------------------------------------------------
(* C16 *)

\* C16: whenever the clock is not after p.nextRefresh, p.role holds a triple,
\* so that no Credentials() call reaches lines 63-67 without credentials.
C16_CachedBranchHasCredentials ==
    /\ ~(clock > nextRefresh) => Present(role)
    /\ ~returned.panicked

-----------------------------------------------------------------------------
(* C17 *)

\* A Credentials() call has just handed back a triple, under a Duration of
\* more than 5 minutes.
C17_Handed == IsCredentials /\ returned.creds # Nil /\ Duration > SafetyMargin

-----------------------------------------------------------------------------
(* C18 *)

\* C18: p.nextRefresh never decreases; with a Duration above 5 minutes a
\* successful refreshing Credentials() call leaves it strictly later than the
\* time of the call; with a Duration below 5 minutes such a call leaves it
\* before the time it read on line 59, and every Credentials() call calls
\* AssumeRole.
C18_ScheduleMovesForward ==
    [][ /\ nextRefresh' >= nextRefresh
        /\ (IsCredentials' /\ Calls' = 1 /\ step'.err = Nil) =>
              /\ Duration > SafetyMargin =>
                    (nextRefresh' > clock' /\ nextRefresh' > clock)
              /\ Duration < SafetyMargin => nextRefresh' < clock'
        /\ (IsCredentials' /\ Duration < SafetyMargin) => Calls' = 1 ]_vars

\* With a Duration below 5 minutes, a call that directly follows a successful
\* call has called AssumeRole again.
C18_Witness ==
    /\ IsCredentials
    /\ Duration < SafetyMargin
    /\ step.again
    /\ step.prev.creds # Nil
    /\ Calls = 1
    /\ nextRefresh < clock

=============================================================================
